---- MODULE Spec2Model ----
(***************************************************************************)
(* Model of ai_experiment_assistant: the record store operations of        *)
(* recorder.py (add / edit / delete over a transactional session) and the  *)
(* analysis engine of analyzer.py (tabulation, statistics, anomaly rules,  *)
(* combined summary).                                                      *)
(*                                                                         *)
(* Numbers.  Masses and mass deltas are integers counting hundredths of a  *)
(* gram (0.01 g); the ratio threshold counts hundredths as well, so the    *)
(* defaults 0.5, 0.1 g and 0.05 g are 50, 10 and 5.  Means, ratios and     *)
(* standard deviations are exact rationals, compared by cross              *)
(* multiplication; binary floating-point rounding is not modelled.         *)
(*                                                                         *)
(* Text.  A Python str is a sequence of one-character strings, so that     *)
(* concatenation, repr() quoting and lexicographic order are computed.     *)
(*                                                                         *)
(* Exceptions.  An operation that can raise returns an outcome record      *)
(* [raised, value]; raised = "None" is a normal return.                    *)
(***************************************************************************)
EXTENDS Integers, Sequences, FiniteSets, TLC

VARIABLES
    store,                   \* committed rows of the experiments table
    experiments,             \* the record sequence a caller hands to the analyzer
    thresholds,              \* the caller's threshold mapping object, as left by the last call
    DEFAULT_ANALYSIS_CONFIG, \* config.DEFAULT_ANALYSIS_CONFIG (a module-level dict)
    call,                    \* the last operation called and its arguments
    result                   \* the outcome of the last operation

vars == <<store, experiments, thresholds, DEFAULT_ANALYSIS_CONFIG, call, result>>

-----------------------------------------------------------------------------
(* Bounds *)

\* longest record sequence handed to the analyzer
MaxRecs == 2

\* longest record sequence of a session of several analyzer calls
MaxSessionRecs == 1

\* most keyword arguments in one edit_experiment call
MaxChanges == 2

-----------------------------------------------------------------------------
(* Python values *)

Return(v) == [raised |-> "None", value |-> v]

Raise(e) == [raised |-> e, value |-> <<>>]

\* {} : the empty dict (also the zero-row DataFrame and the empty list)
EmptyDict == <<>>

\* an Optional argument: <<>> is None, <<v>> is the value v
NoneArg == <<>>

Some(v) == <<v>>

Abs(x) == IF x < 0 THEN -x ELSE x

RECURSIVE GCD(_, _)
GCD(a, b) == IF b = 0 THEN a ELSE GCD(b, a % b)

\* the rational n/d (d > 0) in lowest terms
Frac(n, d) ==
    LET g == GCD(Abs(n), d)
    IN  [num |-> n \div g, den |-> d \div g]

\* float("nan")
NaN == [num |-> 0, den |-> 0]

FracAdd(p, q) == Frac(p.num * q.den + q.num * p.den, p.den * q.den)

\* code points of the characters that occur in the model's strings
CodePoint(c) ==
    CASE c = " "  -> 32
      [] c = "\"" -> 34
      [] c = "'"  -> 39
      [] c = "("  -> 40
      [] c = ")"  -> 41
      [] c = ","  -> 44
      [] c = "-"  -> 45
      [] c = "1"  -> 49
      [] c = "2"  -> 50
      [] c = "3"  -> 51
      [] c = "C"  -> 67
      [] c = "E"  -> 69
      [] c = "G"  -> 71
      [] c = "H"  -> 72
      [] c = "K"  -> 75
      [] c = "O"  -> 79
      [] c = "P"  -> 80
      [] c = "R"  -> 82
      [] c = "U"  -> 85
      [] c = "V"  -> 86
      [] c = "\\" -> 92

\* s < t for Python str: lexicographic by code point
RECURSIVE StrLess(_, _)
StrLess(s, t) ==
    IF t = <<>> THEN FALSE
    ELSE IF s = <<>> THEN TRUE
    ELSE IF s[1] # t[1] THEN CodePoint(s[1]) < CodePoint(t[1])
    ELSE StrLess(Tail(s), Tail(t))

\* the characters of s, each escaped as repr() escapes it inside quote q
RECURSIVE ReprBody(_, _)
ReprBody(s, q) ==
    IF s = <<>> THEN <<>>
    ELSE (IF s[1] = q \/ s[1] = "\\" THEN <<"\\", s[1]>> ELSE <<s[1]>>)
         \o ReprBody(Tail(s), q)

Chars(s) == {s[i] : i \in DOMAIN s}

\* repr(s) for a str s: single quotes, unless s holds ' and no "
PyRepr(s) ==
    LET q == IF "'" \in Chars(s) /\ "\"" \notin Chars(s) THEN "\"" ELSE "'"
    IN  <<q>> \o ReprBody(s, q) \o <<q>>

\* faulty variant of StrOfKey: the fields joined without repr()
StrOfKey_Unquoted(k) == <<"(">> \o k[1] \o <<",", " ">> \o k[2] \o <<")">>

\* str(k) for a 2-tuple k of str
StrOfKey(k) == <<"(">> \o PyRepr(k[1]) \o <<",", " ">> \o PyRepr(k[2]) \o <<")">>

\* an insertion-ordered dict is a sequence of <<key, value>> pairs with distinct keys
DictKeys(d) == {d[i][1] : i \in DOMAIN d}

DictGet(d, k) == d[CHOOSE i \in DOMAIN d : d[i][1] = k][2]

\* d[k] = v
DictSet(d, k, v) ==
    IF k \in DictKeys(d)
    THEN [i \in DOMAIN d |-> IF d[i][1] = k THEN <<k, v>> ELSE d[i]]
    ELSE Append(d, <<k, v>>)

\* faulty variant of MergeDicts: {**b, **a}, the first dict wins
MergeDicts_FirstWins(a, b) ==
    [k \in DOMAIN a \cup DOMAIN b |-> IF k \in DOMAIN a THEN a[k] ELSE b[k]]

\* {**a, **b} for dicts whose order is never read (functions on their keys)
MergeDicts(a, b) ==
    [k \in DOMAIN a \cup DOMAIN b |-> IF k \in DOMAIN b THEN b[k] ELSE a[k]]

-----------------------------------------------------------------------------
(* config.py *)

DefaultAnalysisConfig ==
    [cathode_loss_ratio_threshold    |-> 50,
     anode_loss_threshold_g           |-> 10,
     std_dev_instability_threshold_g |-> 5]

-----------------------------------------------------------------------------
(* models.py *)

\* Anomaly(experiment_id, anomaly_type, message): a dataclass, fields in this order
Anomaly(experiment_id, anomaly_type, message) == <<experiment_id, anomaly_type, message>>

\* dataclasses.asdict
asdict(a) == [experiment_id |-> a[1], anomaly_type |-> a[2], message |-> a[3]]

-----------------------------------------------------------------------------
(* analyzer.py: tabulation and statistics *)

\* one row per record; an empty input gives pd.DataFrame(), the zero-row table
experiments_to_dataframe(exps) ==
    LET records == [i \in DOMAIN exps |->
                      [experiment_id         |-> exps[i].experiment_id,
                       mode                  |-> exps[i].mode,
                       electrolyte           |-> exps[i].electrolyte,
                       delta_mass_positive_g |-> exps[i].delta_mass_positive_g,
                       delta_mass_negative_g |-> exps[i].delta_mass_negative_g]]
    IN  IF records = <<>> THEN EmptyDict ELSE records

\* df[column]
Column(df, column) ==
    [i \in DOMAIN df |->
        IF column = "delta_mass_positive_g" THEN df[i].delta_mass_positive_g
        ELSE df[i].delta_mass_negative_g]

RECURSIVE SeriesSum(_)
SeriesSum(xs) == IF xs = <<>> THEN 0 ELSE xs[1] + SeriesSum(Tail(xs))

SeriesSumSq(xs) == SeriesSum([i \in DOMAIN xs |-> xs[i] * xs[i]])

SeriesMax(xs) == CHOOSE m \in {xs[i] : i \in DOMAIN xs} : \A i \in DOMAIN xs : xs[i] <= m

SeriesMin(xs) == CHOOSE m \in {xs[i] : i \in DOMAIN xs} : \A i \in DOMAIN xs : m <= xs[i]

\* series.mean()
SeriesMean(xs) == Frac(SeriesSum(xs), Len(xs))

\* faulty variant of VarianceNumerator: the mean is not subtracted
VarianceNumerator_NoMean(xs) == Len(xs) * SeriesSumSq(xs)

\* n^2 times the population variance of xs: n * sum(x^2) - (sum x)^2
VarianceNumerator(xs) == Len(xs) * SeriesSumSq(xs) - SeriesSum(xs) * SeriesSum(xs)

\* series.std(ddof=0) = sqrt(radicand) / den
SeriesStd(xs) == [radicand |-> VarianceNumerator(xs), den |-> Len(xs)]

\* faulty variant of StdAtLeast: std > limit
StdAtLeast_Strict(std, limit) ==
    IF limit < 0 THEN TRUE
    ELSE std.radicand > limit * limit * std.den * std.den

\* std >= limit, for std = series.std(ddof=0) and a limit in hundredths
StdAtLeast(std, limit) ==
    IF limit <= 0 THEN TRUE
    ELSE std.radicand >= limit * limit * std.den * std.den

RECURSIVE FracSum(_)
FracSum(fs) == IF fs = <<>> THEN Frac(0, 1) ELSE FracAdd(fs[1], FracSum(Tail(fs)))

\* faulty variant of RatioMeanAbs: the sum of the defined ratios over the count of all rows
RatioMeanAbs_AllRows(df) ==
    LET defined == SelectSeq(df, LAMBDA r : r.delta_mass_positive_g # 0)
        ratios  == [i \in DOMAIN defined |->
                      Frac(Abs(defined[i].delta_mass_negative_g),
                           Abs(defined[i].delta_mass_positive_g))]
        total   == FracSum(ratios)
    IN  Frac(total.num, total.den * Len(df))

\* (df[neg].abs() / df[pos].abs().replace(0, nan)).mean(): NaN rows are skipped
RatioMeanAbs(df) ==
    LET defined == SelectSeq(df, LAMBDA r : r.delta_mass_positive_g # 0)
        ratios  == [i \in DOMAIN defined |->
                      Frac(Abs(defined[i].delta_mass_negative_g),
                           Abs(defined[i].delta_mass_positive_g))]
        total   == FracSum(ratios)
    IN  IF defined = <<>> THEN NaN
        ELSE Frac(total.num, total.den * Len(defined))

ColumnStats(series) ==
    [mean |-> SeriesMean(series),
     std  |-> SeriesStd(series),
     max  |-> SeriesMax(series),
     min  |-> SeriesMin(series)]

\* the statistics of a table with at least one row
StatsOfRows(df) ==
    [anode          |-> ColumnStats(Column(df, "delta_mass_positive_g")),
     cathode        |-> ColumnStats(Column(df, "delta_mass_negative_g")),
     ratio_mean_abs |-> RatioMeanAbs(df)]

\* faulty variant of basic_statistics: no test for the empty table, whose columns
\* have no mean, deviation, maximum or minimum
basic_statistics_NoEmptyTest(df) ==
    IF df = <<>>
    THEN [anode          |-> [mean |-> NaN, std |-> NaN, max |-> NaN, min |-> NaN],
          cathode        |-> [mean |-> NaN, std |-> NaN, max |-> NaN, min |-> NaN],
          ratio_mean_abs |-> NaN]
    ELSE StatsOfRows(df)

basic_statistics(df) ==
    IF df = <<>> THEN EmptyDict ELSE StatsOfRows(df)

\* (electrolyte, mode) of a row
KeyOf(row) == <<row.electrolyte, row.mode>>

\* tuple order on group keys
KeyLess(j, k) == StrLess(j[1], k[1]) \/ (j[1] = k[1] /\ StrLess(j[2], k[2]))

RECURSIVE SortKeys(_)
SortKeys(S) ==
    IF S = {} THEN <<>>
    ELSE LET k == CHOOSE k \in S : \A j \in S \ {k} : KeyLess(k, j)
         IN  <<k>> \o SortKeys(S \ {k})

\* faulty variant of GroupRows: rows are matched on the electrolyte alone
GroupRows_ByElectrolyte(df, key) == SelectSeq(df, LAMBDA r : r.electrolyte = key[1])

\* the rows of df that belong to the group of key
GroupRows(df, key) == SelectSeq(df, LAMBDA r : KeyOf(r) = key)

\* df.groupby(["electrolyte", "mode"]): <<key, rows>> pairs, keys ascending
groupby(df) ==
    LET keys == SortKeys({KeyOf(df[i]) : i \in DOMAIN df})
    IN  [i \in DOMAIN keys |-> <<keys[i], GroupRows(df, keys[i])>>]

RECURSIVE GroupedLoop(_, _)
GroupedLoop(groups, results) ==
    IF groups = <<>> THEN results
    ELSE GroupedLoop(Tail(groups),
                     DictSet(results, groups[1][1], basic_statistics(groups[1][2])))

grouped_statistics(df) ==
    IF df = <<>> THEN EmptyDict ELSE GroupedLoop(groupby(df), EmptyDict)

-----------------------------------------------------------------------------
(* analyzer.py: anomaly rules *)

\* thresholds or {}
OrEmpty(arg) == IF arg = NoneArg THEN EmptyDict ELSE arg[1]

\* faulty variant of MergeThresholds: config.DEFAULT_ANALYSIS_CONFIG.update(thresholds or {})
MergeThresholds_UpdatesDefaults(defaults, arg) ==
    [merged   |-> MergeDicts(defaults, OrEmpty(arg)),
     defaults |-> MergeDicts(defaults, OrEmpty(arg)),
     caller   |-> arg]

\* line 81, thresholds = {**config.DEFAULT_ANALYSIS_CONFIG, **(thresholds or {})}:
\* the new local dict, and the two dicts it was built from as the statement leaves them
MergeThresholds(defaults, arg) ==
    [merged   |-> MergeDicts(defaults, OrEmpty(arg)),
     defaults |-> defaults,
     caller   |-> arg]

cathode_ratio_limit(th) == th["cathode_loss_ratio_threshold"]

anode_loss_limit(th) == th["anode_loss_threshold_g"]

\* faulty variant of instability_std_limit: the anode key is read
instability_std_limit_AnodeKey(th) == th["anode_loss_threshold_g"]

instability_std_limit(th) == th["std_dev_instability_threshold_g"]

\* n/d (n >= 0, d > 0) rounded to the nearest integer, ties to even
RoundHalfEven(n, d) ==
    LET q == n \div d
        r == n % d
    IN  IF 2 * r > d THEN q + 1
        ELSE IF 2 * r = d THEN q + (q % 2)
        ELSE q

\* f"{ratio:.2f}": the hundredths shown
FormatRatio(neg, pos) == RoundHalfEven(100 * Abs(neg), Abs(pos))

\* f"{delta:.3f}": the thousandths shown, with the sign
FormatDelta(delta) == 10 * delta

\* the r in lo .. hi - 1 with r * r <= x < (r + 1) * (r + 1), given lo * lo <= x < hi * hi
RECURSIVE FloorSqrt(_, _, _)
FloorSqrt(x, lo, hi) ==
    IF hi - lo <= 1 THEN lo
    ELSE LET mid == (lo + hi) \div 2
         IN  IF mid * mid <= x THEN FloorSqrt(x, mid, hi) ELSE FloorSqrt(x, lo, mid)

\* f"{std_anode:.3f}": the thousandths shown, the nearest integer to 10 * sqrt(v) / n
FormatStd(xs) ==
    LET v == VarianceNumerator(xs)
        n == Len(xs)
        y == (400 * v) \div (n * n)
    IN  (FloorSqrt(y, 0, y + 1) + 1) \div 2

\* faulty variant of RatioAtLeast: the cathode delta is taken with its sign
RatioAtLeast_Signed(neg, pos, limit) ==
    IF pos = 0 THEN Raise("ZeroDivisionError")
    ELSE Return(100 * neg >= limit * Abs(pos))

\* abs(neg) / abs(pos) >= limit, the limit in hundredths; a zero divisor raises
RatioAtLeast(neg, pos, limit) ==
    IF pos = 0 THEN Raise("ZeroDivisionError")
    ELSE Return(100 * Abs(neg) >= limit * Abs(pos))

\* faulty variant of HighCathodeLoss: no test for a zero anode delta
HighCathodeLoss_NoZeroTest(exp, limit) ==
    LET test == RatioAtLeast(exp.delta_mass_negative_g, exp.delta_mass_positive_g, limit)
    IN  IF test.raised # "None" THEN test
        ELSE IF test.value
        THEN Return(<<Anomaly(exp.experiment_id, "HIGH_CATHODE_LOSS",
                              [metric |-> FormatRatio(exp.delta_mass_negative_g,
                                                      exp.delta_mass_positive_g),
                               limit  |-> limit,
                               group  |-> <<>>])>>)
        ELSE Return(<<>>)

\* lines 92-103: the findings Rule A appends for one record
HighCathodeLoss(exp, limit) ==
    IF exp.delta_mass_positive_g # 0
    THEN LET test == RatioAtLeast(exp.delta_mass_negative_g, exp.delta_mass_positive_g, limit)
         IN  IF test.raised # "None" THEN test
             ELSE IF test.value
             THEN Return(<<Anomaly(exp.experiment_id, "HIGH_CATHODE_LOSS",
                                   [metric |-> FormatRatio(exp.delta_mass_negative_g,
                                                           exp.delta_mass_positive_g),
                                    limit  |-> limit,
                                    group  |-> <<>>])>>)
             ELSE Return(<<>>)
    ELSE Return(<<>>)

\* faulty variant of HighAnodeLoss: the absolute value of the anode delta is compared
HighAnodeLoss_Abs(exp, limit) ==
    IF Abs(exp.delta_mass_positive_g) >= limit
    THEN <<Anomaly(exp.experiment_id, "HIGH_ANODE_LOSS",
                   [metric |-> FormatDelta(exp.delta_mass_positive_g),
                    limit  |-> limit,
                    group  |-> <<>>])>>
    ELSE <<>>

\* lines 104-111: the findings Rule B appends for one record
HighAnodeLoss(exp, limit) ==
    IF exp.delta_mass_positive_g >= limit
    THEN <<Anomaly(exp.experiment_id, "HIGH_ANODE_LOSS",
                   [metric |-> FormatDelta(exp.delta_mass_positive_g),
                    limit  |-> limit,
                    group  |-> <<>>])>>
    ELSE <<>>

\* faulty variant of RecordFindings: Rule B is evaluated before Rule A
RecordFindings_AnodeFirst(exp, th) ==
    LET a == HighCathodeLoss(exp, cathode_ratio_limit(th))
    IN  IF a.raised # "None" THEN a
        ELSE Return(HighAnodeLoss(exp, anode_loss_limit(th)) \o a.value)

\* lines 92-111: one iteration of the record loop
RecordFindings(exp, th) ==
    LET a == HighCathodeLoss(exp, cathode_ratio_limit(th))
    IN  IF a.raised # "None" THEN a
        ELSE Return(a.value \o HighAnodeLoss(exp, anode_loss_limit(th)))

\* lines 91-111: for exp in experiments_list
RECURSIVE RecordLoop(_, _, _)
RecordLoop(exps, th, anomalies) ==
    IF exps = <<>> THEN Return(anomalies)
    ELSE LET f == RecordFindings(exps[1], th)
         IN  IF f.raised # "None" THEN f
             ELSE RecordLoop(Tail(exps), th, anomalies \o f.value)

\* f"GROUP-{electrolyte}-{mode}"
GroupId(electrolyte, mode) ==
    <<"G", "R", "O", "U", "P", "-">> \o electrolyte \o <<"-">> \o mode

\* lines 116-127: the findings Rule C appends for one group
UnstableResults(key, group, limit) ==
    LET series == Column(group, "delta_mass_positive_g")
    IN  IF StdAtLeast(SeriesStd(series), limit)
        THEN <<Anomaly(GroupId(key[1], key[2]), "UNSTABLE_RESULTS",
                       [metric |-> FormatStd(series),
                        limit  |-> limit,
                        group  |-> key])>>
        ELSE <<>>

\* lines 115-127: for (electrolyte, mode), group in grouped
RECURSIVE GroupLoop(_, _, _)
GroupLoop(groups, limit, anomalies) ==
    IF groups = <<>> THEN anomalies
    ELSE GroupLoop(Tail(groups), limit,
                   anomalies \o UnstableResults(groups[1][1], groups[1][2], limit))

\* detect_anomalies with the thresholds already merged
DetectWith(exps, th) ==
    IF exps = <<>> THEN Return(<<>>)
    ELSE LET per_record == RecordLoop(exps, th, <<>>)
             df         == experiments_to_dataframe(exps)
         IN  IF per_record.raised # "None" THEN per_record
             ELSE IF df # <<>>
             THEN Return(GroupLoop(groupby(df), instability_std_limit(th), per_record.value))
             ELSE per_record

detect_anomalies(exps, arg, defaults) ==
    DetectWith(exps, MergeThresholds(defaults, arg).merged)

-----------------------------------------------------------------------------
(* analyzer.py: combined summary *)

\* {str(k): v for k, v in grouped_stats.items()}
RECURSIVE RenderKeys(_, _)
RenderKeys(items, out) ==
    IF items = <<>> THEN out
    ELSE RenderKeys(Tail(items), DictSet(out, StrOfKey(items[1][1]), items[1][2]))

summarize_analysis(exps, defaults) ==
    LET df            == experiments_to_dataframe(exps)
        stats_all     == IF df # <<>> THEN basic_statistics(df) ELSE EmptyDict
        grouped_stats == IF df # <<>> THEN grouped_statistics(df) ELSE EmptyDict
        anomalies     == detect_anomalies(exps, NoneArg, defaults)
    IN  IF anomalies.raised # "None" THEN anomalies
        ELSE Return([overall_stats |-> stats_all,
                     grouped_stats |-> RenderKeys(grouped_stats, EmptyDict),
                     anomalies     |-> [i \in DOMAIN anomalies.value |->
                                           asdict(anomalies.value[i])]])

-----------------------------------------------------------------------------
(* Inputs of the analyzer *)

Digit(n) == CASE n = 1 -> "1" [] n = 2 -> "2" [] n = 3 -> "3"

\* "E1", "E2", ...
ExperimentId(n) == <<"E", Digit(n)>>

KOH == <<"K", "O", "H">>

CV == <<"C", "V">>

\* (electrolyte, mode) of the records: ("KOH", "CV"), ("KOH, CV", "CV"), ("KOH", "CV, CV")
GroupKeys == {<<KOH, CV>>, <<KOH \o <<",", " ">> \o CV, CV>>, <<KOH, CV \o <<",", " ">> \o CV>>}

\* anode deltas: a loss, none, the default limit, twice the default limit
AnodeDeltas == {-10, 0, 10, 20}

CathodeDeltas == {-10, 0}

\* the record at position i of n, newest first as query_experiments orders them
AnalysisRecords(i, n) ==
    {[experiment_id         |-> ExperimentId(n + 1 - i),
      mode                  |-> k[2],
      electrolyte           |-> k[1],
      delta_mass_positive_g |-> pos,
      delta_mass_negative_g |-> neg] :
        k \in GroupKeys, pos \in AnodeDeltas, neg \in CathodeDeltas}

\* record sequences of at most max records
ExperimentLists(max) ==
    UNION {{xs \in [1 .. n -> UNION {AnalysisRecords(i, n) : i \in 1 .. n}] :
               \A i \in 1 .. n : xs[i] \in AnalysisRecords(i, n)} : n \in 0 .. max}

RecognizedKeys ==
    {"cathode_loss_ratio_threshold", "anode_loss_threshold_g",
     "std_dev_instability_threshold_g"}

\* the values a caller overrides a key with
OverrideValues(k) ==
    CASE k = "cathode_loss_ratio_threshold"    -> {100}
      [] k = "anode_loss_threshold_g"           -> {20}
      [] k = "std_dev_instability_threshold_g" -> {0, 10}
      [] OTHER                                  -> {1}

ThresholdMaps ==
    {m \in UNION {[S -> {0, 1, 10, 20, 100}] : S \in SUBSET (RecognizedKeys \cup {"unknown_key"})} :
        \A k \in DOMAIN m : m[k] \in OverrideValues(k)}

ThresholdArgs == {NoneArg} \cup {Some(m) : m \in ThresholdMaps}

-----------------------------------------------------------------------------
(* The analyzer called on a record sequence *)

\* call.repeat: this call has the operation and arguments of the call before it
\* call.assigned: the fields an edit_experiment call assigned before it returned or raised;
\* call.missing: an add_experiment call ended at the test for a missing required field
NoCall ==
    [op |-> "none", thresholds |-> NoneArg, experiment_id |-> <<>>, repeat |-> FALSE,
     assigned |-> 0, missing |-> FALSE]

Init ==
    /\ store = {}
    /\ experiments \in ExperimentLists(MaxRecs)
    /\ thresholds = NoneArg
    /\ DEFAULT_ANALYSIS_CONFIG = DefaultAnalysisConfig
    /\ call = NoCall
    /\ result = Return(<<>>)

AnalysisCall(op, arg) ==
    [NoCall EXCEPT !.op = op, !.thresholds = arg,
                   !.repeat = (call.op = op /\ call.thresholds = arg)]

CallExperimentsToDataframe ==
    /\ call' = AnalysisCall("experiments_to_dataframe", NoneArg)
    /\ result' = Return(experiments_to_dataframe(experiments))
    /\ thresholds' = NoneArg
    /\ UNCHANGED <<store, experiments, DEFAULT_ANALYSIS_CONFIG>>

CallBasicStatistics ==
    /\ call' = AnalysisCall("basic_statistics", NoneArg)
    /\ result' = Return(basic_statistics(experiments_to_dataframe(experiments)))
    /\ thresholds' = NoneArg
    /\ UNCHANGED <<store, experiments, DEFAULT_ANALYSIS_CONFIG>>

CallGroupedStatistics ==
    /\ call' = AnalysisCall("grouped_statistics", NoneArg)
    /\ result' = Return(grouped_statistics(experiments_to_dataframe(experiments)))
    /\ thresholds' = NoneArg
    /\ UNCHANGED <<store, experiments, DEFAULT_ANALYSIS_CONFIG>>

CallDetectAnomalies ==
    \E arg \in ThresholdArgs :
        LET merge == MergeThresholds(DEFAULT_ANALYSIS_CONFIG, arg)
        IN  /\ call' = AnalysisCall("detect_anomalies", arg)
            /\ result' = detect_anomalies(experiments, arg, DEFAULT_ANALYSIS_CONFIG)
            /\ thresholds' = merge.caller
            /\ DEFAULT_ANALYSIS_CONFIG' = merge.defaults
            /\ UNCHANGED <<store, experiments>>

CallSummarizeAnalysis ==
    LET merge == MergeThresholds(DEFAULT_ANALYSIS_CONFIG, NoneArg)
    IN  /\ call' = AnalysisCall("summarize_analysis", NoneArg)
        /\ result' = summarize_analysis(experiments, DEFAULT_ANALYSIS_CONFIG)
        /\ thresholds' = merge.caller
        /\ DEFAULT_ANALYSIS_CONFIG' = merge.defaults
        /\ UNCHANGED <<store, experiments>>

AnalysisStep ==
    \/ CallExperimentsToDataframe
    \/ CallBasicStatistics
    \/ CallGroupedStatistics
    \/ CallDetectAnomalies
    \/ CallSummarizeAnalysis

\* one call on each input
Next == call.op = "none" /\ AnalysisStep

Spec == Init /\ [][Next]_vars

\* calls in any order on one input, until a call repeats the call before it
InitSession ==
    /\ store = {}
    /\ experiments \in ExperimentLists(MaxSessionRecs)
    /\ thresholds = NoneArg
    /\ DEFAULT_ANALYSIS_CONFIG = DefaultAnalysisConfig
    /\ call = NoCall
    /\ result = Return(<<>>)

SessionNext == ~call.repeat /\ AnalysisStep

SpecSession == InitSession /\ [][SessionNext]_vars

-----------------------------------------------------------------------------
(* recorder.py over storage.get_session *)

\* Values a caller passes: a number, or a str (the empty str included)
Number(n) == [kind |-> "number", n |-> n, s |-> ""]

Text(t) == [kind |-> "text", n |-> 0, s |-> t]

NUMERIC_FIELDS ==
    {"voltage_V", "current_A", "duration_min",
     "initial_mass_positive_g", "final_mass_positive_g",
     "initial_mass_negative_g", "final_mass_negative_g"}

\* the required mass fields, in the order add_experiment tests them
MassFields ==
    <<"initial_mass_positive_g", "final_mass_positive_g",
      "initial_mass_negative_g", "final_mass_negative_g">>

\* the columns of Experiment that the model keeps
Columns ==
    {"experiment_id", "mode",
     "initial_mass_positive_g", "final_mass_positive_g", "delta_mass_positive_g",
     "initial_mass_negative_g", "final_mass_negative_g", "delta_mass_negative_g"}

\* _parse_float: None for None and "", the number for a number, ValidationError otherwise
parse_float(value) ==
    IF value.kind = "text" /\ value.s = "" THEN Return(NoneArg)
    ELSE IF value.kind = "number" THEN Return(Some(value.n))
    ELSE Raise("ValidationError")

\* _calculate_delta on two Optional numbers: None on either side is a TypeError
calculate_delta(initial, final) ==
    IF initial = NoneArg \/ final = NoneArg THEN Raise("TypeError")
    ELSE Return(Some(final[1] - initial[1]))

\* the value of a column as the session object holds it: Optional numbers, a str for mode
Held(key, value) ==
    IF key = "mode" THEN value.s
    ELSE IF key = "experiment_id" THEN value
    ELSE IF value.kind = "number" THEN Some(value.n) ELSE NoneArg

\* the row a session object is written as at commit
RowOf(obj) ==
    [experiment_id           |-> obj.experiment_id,
     mode                    |-> obj.mode,
     initial_mass_positive_g |-> obj.initial_mass_positive_g[1],
     final_mass_positive_g   |-> obj.final_mass_positive_g[1],
     delta_mass_positive_g   |-> obj.delta_mass_positive_g[1],
     initial_mass_negative_g |-> obj.initial_mass_negative_g[1],
     final_mass_negative_g   |-> obj.final_mass_negative_g[1],
     delta_mass_negative_g   |-> obj.delta_mass_negative_g[1]]

\* the session object loaded from a row
ObjectOf(row) ==
    [experiment_id           |-> row.experiment_id,
     mode                    |-> row.mode,
     initial_mass_positive_g |-> Some(row.initial_mass_positive_g),
     final_mass_positive_g   |-> Some(row.final_mass_positive_g),
     delta_mass_positive_g   |-> Some(row.delta_mass_positive_g),
     initial_mass_negative_g |-> Some(row.initial_mass_negative_g),
     final_mass_negative_g   |-> Some(row.final_mass_negative_g),
     delta_mass_negative_g   |-> Some(row.delta_mass_negative_g)]

\* session.query(Experiment).filter_by(experiment_id=...).one_or_none(): <<>> or <<row>>
OneOrNone(rows, experiment_id) ==
    IF \E r \in rows : r.experiment_id = experiment_id
    THEN Some(CHOOSE r \in rows : r.experiment_id = experiment_id)
    ELSE NoneArg

\* lines 44-48: the mass entries of data parsed in keyword order; data maps keys to values
RECURSIVE ParseData(_, _, _)
ParseData(data, fields, parsed) ==
    IF fields = <<>> THEN Return(parsed)
    ELSE IF fields[1] \notin DOMAIN data THEN ParseData(data, Tail(fields), parsed)
    ELSE LET v == parse_float(data[fields[1]])
         IN  IF v.raised # "None" THEN v
             ELSE ParseData(data, Tail(fields), MergeDicts(parsed, (fields[1] :> v.value)))

\* parsed.get(field)
GetOrNone(parsed, field) == IF field \in DOMAIN parsed THEN parsed[field] ELSE NoneArg

\* the session objects of the stored rows
Loaded(rows) == {ObjectOf(r) : r \in rows}

\* the columns declared nullable=False that the model keeps as Optional values
NotNullColumns ==
    {"initial_mass_positive_g", "final_mass_positive_g", "delta_mass_positive_g",
     "initial_mass_negative_g", "final_mass_negative_g", "delta_mass_negative_g"}

\* session.commit() writing the session's objects: body.pending are the objects of the
\* stored rows as the body left them, body.new the objects it added; a NULL in a NOT NULL
\* column or a second row with a stored experiment_id is an IntegrityError
Flush(rows, body) ==
    LET objs == body.pending \cup {body.new[i] : i \in DOMAIN body.new}
    IN  IF \/ \E o \in objs : \E c \in NotNullColumns : o[c] = NoneArg
           \/ \E i \in DOMAIN body.new :
                 \E o \in body.pending : o.experiment_id = body.new[i].experiment_id
        THEN [outcome |-> Raise("IntegrityError"), rows |-> rows]
        ELSE [outcome |-> Return(<<>>), rows |-> {RowOf(o) : o \in objs}]

\* faulty variant of get_session: the session is committed in the finally clause, so the
\* objects are written when the body raised as well
get_session_CommitsAlways(rows, body) ==
    LET flushed == Flush(rows, body)
    IN  IF body.outcome.raised # "None"
        THEN [outcome |-> body.outcome, rows |-> flushed.rows]
        ELSE IF flushed.outcome.raised # "None"
        THEN [outcome |-> flushed.outcome, rows |-> rows]
        ELSE [outcome |-> body.outcome, rows |-> flushed.rows]

\* with get_session() as session: the body's outcome and the rows afterwards; the body is
\* followed by commit, and an exception of the body or of commit by rollback and re-raise
get_session(rows, body) ==
    IF body.outcome.raised # "None"
    THEN [outcome |-> body.outcome, rows |-> rows]
    ELSE LET flushed == Flush(rows, body)
         IN  IF flushed.outcome.raised # "None"
             THEN [outcome |-> flushed.outcome, rows |-> rows]
             ELSE [outcome |-> body.outcome, rows |-> flushed.rows]

\* add_experiment: the outcome, the rows afterwards, and whether the call ended at the
\* test for a missing required field (line 57)
add_experiment(rows, experiment_id, mode, data) ==
    LET parsed == ParseData(data, MassFields, <<>>)
    IN  IF parsed.raised # "None"
        THEN [outcome |-> parsed, rows |-> rows, missing |-> FALSE]
        ELSE IF \E i \in DOMAIN MassFields : GetOrNone(parsed.value, MassFields[i]) = NoneArg
        THEN [outcome |-> Raise("ValidationError"), rows |-> rows, missing |-> TRUE]
        ELSE LET p    == parsed.value
                 pos  == calculate_delta(p["initial_mass_positive_g"], p["final_mass_positive_g"])
                 neg  == calculate_delta(p["initial_mass_negative_g"], p["final_mass_negative_g"])
                 obj  == [experiment_id           |-> experiment_id,
                          mode                    |-> mode,
                          initial_mass_positive_g |-> p["initial_mass_positive_g"],
                          final_mass_positive_g   |-> p["final_mass_positive_g"],
                          delta_mass_positive_g   |-> pos.value,
                          initial_mass_negative_g |-> p["initial_mass_negative_g"],
                          final_mass_negative_g   |-> p["final_mass_negative_g"],
                          delta_mass_negative_g   |-> neg.value]
                 done == get_session(rows, [outcome |-> Return(RowOf(obj)),
                                            pending |-> Loaded(rows),
                                            new     |-> <<obj>>])
             IN  [outcome |-> done.outcome, rows |-> done.rows, missing |-> FALSE]

\* lines 84-88: the setattr loop over changes, a sequence of <<key, value>> in keyword
\* order; the object as the loop leaves it and the number of setattr calls made
RECURSIVE ApplyChanges(_, _, _)
ApplyChanges(obj, changes, assigned) ==
    IF changes = <<>> THEN [outcome |-> Return(<<>>), obj |-> obj, assigned |-> assigned]
    ELSE LET key   == changes[1][1]
             value == IF key \in NUMERIC_FIELDS
                      THEN parse_float(changes[1][2])
                      ELSE Return(Held(key, changes[1][2]))
         IN  IF value.raised # "None"
             THEN [outcome |-> value, obj |-> obj, assigned |-> assigned]
             ELSE IF key \in Columns
             THEN ApplyChanges([obj EXCEPT ![key] = value.value], Tail(changes), assigned + 1)
             ELSE ApplyChanges(obj, Tail(changes), assigned)

ChangedKeys(changes) == {changes[i][1] : i \in DOMAIN changes}

\* lines 90-96 and 97-103: a delta is recalculated when one of its masses is in changes
Recalculate(obj, changes, initial, final, delta) ==
    IF \E k \in {initial, final} : k \in ChangedKeys(changes)
    THEN LET d == calculate_delta(obj[initial], obj[final])
         IN  IF d.raised # "None" THEN d ELSE Return([obj EXCEPT ![delta] = d.value])
    ELSE Return(obj)

\* lines 84-106: the body of edit_experiment's with block on the loaded object found:
\* its outcome, the session's objects as it leaves them, the number of fields assigned
EditBody(rows, found, changes) ==
    LET others == Loaded(rows \ {found})
        set    == ApplyChanges(ObjectOf(found), changes, 0)
        pos    == Recalculate(set.obj, changes, "initial_mass_positive_g",
                              "final_mass_positive_g", "delta_mass_positive_g")
        neg    == Recalculate(pos.value, changes, "initial_mass_negative_g",
                              "final_mass_negative_g", "delta_mass_negative_g")
    IN  IF set.outcome.raised # "None"
        THEN [outcome  |-> set.outcome, pending |-> others \cup {set.obj}, new |-> <<>>,
              assigned |-> set.assigned]
        ELSE IF pos.raised # "None"
        THEN [outcome  |-> pos, pending |-> others \cup {set.obj}, new |-> <<>>,
              assigned |-> set.assigned]
        ELSE IF neg.raised # "None"
        THEN [outcome  |-> neg, pending |-> others \cup {pos.value}, new |-> <<>>,
              assigned |-> set.assigned]
        ELSE [outcome  |-> Return(RowOf(neg.value)),
              pending  |-> others \cup {neg.value}, new |-> <<>>,
              assigned |-> set.assigned]

\* edit_experiment: the outcome, the rows afterwards, and the number of fields assigned
edit_experiment(rows, experiment_id, changes) ==
    LET found == OneOrNone(rows, experiment_id)
    IN  IF found = NoneArg
        THEN LET done == get_session(rows, [outcome |-> Raise("ValidationError"),
                                            pending |-> Loaded(rows), new |-> <<>>])
             IN  [outcome |-> done.outcome, rows |-> done.rows, assigned |-> 0]
        ELSE LET body == EditBody(rows, found[1], changes)
                 done == get_session(rows, body)
             IN  [outcome |-> done.outcome, rows |-> done.rows, assigned |-> body.assigned]

\* delete_experiment: the outcome and the rows afterwards
delete_experiment(rows, experiment_id) ==
    LET found == OneOrNone(rows, experiment_id)
    IN  IF found = NoneArg
        THEN get_session(rows, [outcome |-> Raise("ValidationError"),
                                pending |-> Loaded(rows), new |-> <<>>])
        ELSE get_session(rows, [outcome |-> Return(<<>>),
                                pending |-> Loaded(rows \ {found[1]}), new |-> <<>>])

-----------------------------------------------------------------------------
(* Inputs of the recorder *)

\* masses entered, in hundredths of a gram
Masses == {1, 2}

\* "" and a str that is no number
Texts == {"", "CC"}

MassValues == {Number(n) : n \in Masses} \cup {Text(t) : t \in Texts}

\* the identifier that add_experiment is called with, and one that is never stored
StoredId == ExperimentId(1)

MissingId == ExperimentId(2)

\* keyword arguments of add_experiment: the four masses, at most one of them left out
\* or given as a str
AddData ==
    {d \in UNION {[S -> MassValues] : S \in SUBSET {MassFields[i] : i \in DOMAIN MassFields}} :
        Cardinality({i \in DOMAIN MassFields :
                        MassFields[i] \notin DOMAIN d \/ d[MassFields[i]].kind # "number"}) <= 1}

\* the values edit_experiment is called with for a key
EditValues(key) ==
    IF key \in {"delta_mass_positive_g", "delta_mass_negative_g"}
    THEN {Number(n) : n \in Masses}
    ELSE IF key \in {"mode", "unknown_field"} THEN {Text("CC")}
    ELSE MassValues

EditKeys ==
    {MassFields[i] : i \in DOMAIN MassFields}
        \cup {"delta_mass_positive_g", "delta_mass_negative_g", "mode", "unknown_field"}

EditPairs == UNION {{<<k, v>> : v \in EditValues(k)} : k \in EditKeys}

\* keyword arguments of edit_experiment: at most max distinct keys, in any order
EditChanges(max) ==
    {cs \in UNION {[1 .. n -> EditPairs] : n \in 0 .. max} :
        \A i, j \in DOMAIN cs : i # j => cs[i][1] # cs[j][1]}

\* the edits tried on an identifier: single changes on the one that is never stored
EditChangesOf(experiment_id) ==
    IF experiment_id = MissingId THEN EditChanges(1) ELSE EditChanges(MaxChanges)

-----------------------------------------------------------------------------
(* The recorder called on the store *)

InitRecorder ==
    /\ store = {}
    /\ experiments = <<>>
    /\ thresholds = NoneArg
    /\ DEFAULT_ANALYSIS_CONFIG = DefaultAnalysisConfig
    /\ call = NoCall
    /\ result = Return(<<>>)

\* the arguments are kept but for the keyword arguments
RecorderCall(op, experiment_id, assigned, missing) ==
    [NoCall EXCEPT !.op = op, !.experiment_id = experiment_id,
                   !.assigned = assigned, !.missing = missing]

AddExperiment ==
    \E data \in AddData :
        LET done == add_experiment(store, StoredId, "CV", data)
        IN  /\ call' = RecorderCall("add_experiment", StoredId, 0, done.missing)
            /\ result' = done.outcome
            /\ store' = done.rows
            /\ UNCHANGED <<experiments, thresholds, DEFAULT_ANALYSIS_CONFIG>>

EditExperiment ==
    \E experiment_id \in {StoredId, MissingId} :
      \E changes \in EditChangesOf(experiment_id) :
        LET done == edit_experiment(store, experiment_id, changes)
        IN  /\ call' = RecorderCall("edit_experiment", experiment_id, done.assigned, FALSE)
            /\ result' = done.outcome
            /\ store' = done.rows
            /\ UNCHANGED <<experiments, thresholds, DEFAULT_ANALYSIS_CONFIG>>

DeleteExperiment ==
    \E experiment_id \in {StoredId, MissingId} :
        LET done == delete_experiment(store, experiment_id)
        IN  /\ call' = RecorderCall("delete_experiment", experiment_id, 0, FALSE)
            /\ result' = done.outcome
            /\ store' = done.rows
            /\ UNCHANGED <<experiments, thresholds, DEFAULT_ANALYSIS_CONFIG>>

RecorderNext ==
    \/ AddExperiment
    \/ EditExperiment
    \/ DeleteExperiment

SpecRecorder == InitRecorder /\ [][RecorderNext]_vars

-----------------------------------------------------------------------------
(* Properties of the analyzer *)

Detected == call.op = "detect_anomalies"

\* the findings of the last call, when it returned
Findings == IF result.raised = "None" THEN result.value ELSE <<>>

FindingsOfType(fs, t) == SelectSeq(fs, LAMBDA a : a[2] = t)

\* the positions of the input records of group k
Members(k) == {i \in DOMAIN experiments : KeyOf(experiments[i]) = k}

InputKeys == {KeyOf(experiments[i]) : i \in DOMAIN experiments}

\* the limit the last call was asked to apply for key k: the caller's value, else 0.5, 0.1, 0.05
AppliedLimit(k) ==
    IF call.thresholds # NoneArg /\ k \in DOMAIN call.thresholds[1]
    THEN call.thresholds[1][k]
    ELSE CASE k = "cathode_loss_ratio_threshold"    -> 50
           [] k = "anode_loss_threshold_g"           -> 10
           [] k = "std_dev_instability_threshold_g" -> 5

UnstableFor(k) ==
    \E i \in DOMAIN Findings :
        Findings[i][1] = GroupId(k[1], k[2]) /\ Findings[i][2] = "UNSTABLE_RESULTS"

\* C2 as stated: whatever the thresholds, detect_anomalies reports no UNSTABLE_RESULTS
\* finding for a group that has exactly one member.
C2_SingletonNeverUnstable ==
    Detected =>
        \A k \in InputKeys : Cardinality(Members(k)) = 1 => ~UnstableFor(k)

\* C2 amended: when the std_dev_instability_threshold_g applied is greater than zero,
\* detect_anomalies reports no UNSTABLE_RESULTS finding for a group with exactly one member.
C2_SingletonStableUnderPositiveLimit ==
    (Detected /\ AppliedLimit("std_dev_instability_threshold_g") > 0) =>
        /\ result.raised = "None"
        /\ \A k \in InputKeys : Cardinality(Members(k)) = 1 => ~UnstableFor(k)

\* a call with a positive overriding limit on a one-member group with a non-zero anode
\* delta, beside which Rule B fired
C2_Witness ==
    /\ Detected
    /\ call.thresholds # NoneArg
    /\ "std_dev_instability_threshold_g" \in DOMAIN call.thresholds[1]
    /\ AppliedLimit("std_dev_instability_threshold_g") > 0
    /\ \E k \in InputKeys :
          /\ Cardinality(Members(k)) = 1
          /\ \A i \in Members(k) : experiments[i].delta_mass_positive_g = 20
    /\ FindingsOfType(Findings, "HIGH_ANODE_LOSS") # <<>>

\* C3: a record whose anode delta is 0 gets no HIGH_CATHODE_LOSS finding and the call
\* raises nothing, whatever its cathode delta and the ratio threshold.
C3_ZeroAnodeSkipsRuleA ==
    (Detected /\ \E i \in DOMAIN experiments : experiments[i].delta_mass_positive_g = 0) =>
        /\ result.raised = "None"
        /\ \A i \in DOMAIN experiments :
              experiments[i].delta_mass_positive_g = 0 =>
                  ~\E j \in DOMAIN Findings :
                      /\ Findings[j][1] = experiments[i].experiment_id
                      /\ Findings[j][2] = "HIGH_CATHODE_LOSS"

\* a zero-anode record with a non-zero cathode delta, beside a record on which Rule A
\* fired, under an overridden ratio threshold
C3_Witness ==
    /\ Detected
    /\ call.thresholds # NoneArg
    /\ "cathode_loss_ratio_threshold" \in DOMAIN call.thresholds[1]
    /\ \E i \in DOMAIN experiments :
          /\ experiments[i].delta_mass_positive_g = 0
          /\ experiments[i].delta_mass_negative_g # 0
    /\ FindingsOfType(Findings, "HIGH_CATHODE_LOSS") # <<>>

\* C4: on an empty record sequence the table has no rows, both statistics are empty,
\* detect_anomalies returns the empty list under every thresholds argument, the
\* summary's three parts are empty, and nothing raises.
C4_EmptyInputEmptyResults ==
    experiments = <<>> =>
        /\ result.raised = "None"
        /\ call.op = "experiments_to_dataframe" => Len(result.value) = 0
        /\ call.op = "basic_statistics" => result.value = EmptyDict
        /\ call.op = "grouped_statistics" => result.value = EmptyDict
        /\ call.op = "detect_anomalies" => result.value = <<>>
        /\ call.op = "summarize_analysis" =>
              /\ result.value.overall_stats = EmptyDict
              /\ result.value.grouped_stats = EmptyDict
              /\ result.value.anomalies = <<>>
        /\ basic_statistics(experiments_to_dataframe(experiments)) = EmptyDict
        /\ grouped_statistics(experiments_to_dataframe(experiments)) = EmptyDict

\* summarize_analysis has returned on the empty sequence
C4_Witness ==
    /\ experiments = <<>>
    /\ call.op = "summarize_analysis"
    /\ result.raised = "None"

PerRecord(a) == a[2] \in {"HIGH_CATHODE_LOSS", "HIGH_ANODE_LOSS"}

\* the position of the input record a per-record finding is attributed to
PositionOf(a) == CHOOSE i \in DOMAIN experiments : experiments[i].experiment_id = a[1]

\* C5: per-record findings come in input order, a record's HIGH_CATHODE_LOSS directly
\* before its HIGH_ANODE_LOSS, and every UNSTABLE_RESULTS finding after all of them.
C5_FindingOrder ==
    Detected =>
        /\ \A i \in DOMAIN Findings :
              Findings[i][2] \in {"HIGH_CATHODE_LOSS", "HIGH_ANODE_LOSS", "UNSTABLE_RESULTS"}
        /\ \A i \in DOMAIN Findings :
              PerRecord(Findings[i]) =>
                  \E p \in DOMAIN experiments : experiments[p].experiment_id = Findings[i][1]
        /\ \A i, j \in DOMAIN Findings :
              (i < j /\ PerRecord(Findings[j])) =>
                  /\ PerRecord(Findings[i])
                  /\ PositionOf(Findings[i]) <= PositionOf(Findings[j])
                  /\ PositionOf(Findings[i]) = PositionOf(Findings[j]) =>
                        /\ j = i + 1
                        /\ Findings[i][2] = "HIGH_CATHODE_LOSS"
                        /\ Findings[j][2] = "HIGH_ANODE_LOSS"

\* two records with both per-record findings each, followed by a group finding
C5_Witness ==
    /\ Detected
    /\ Len(Findings) = 5
    /\ Len(FindingsOfType(Findings, "HIGH_CATHODE_LOSS")) = 2
    /\ Len(FindingsOfType(Findings, "HIGH_ANODE_LOSS")) = 2
    /\ Findings[5][2] = "UNSTABLE_RESULTS"

\* the thresholds argument arg with anode_loss_threshold_g removed (v = <<>>) or set to v[1]
WithAnodeLimit(arg, v) ==
    LET m    == OrEmpty(arg)
        rest == [k \in DOMAIN m \ {"anode_loss_threshold_g"} |-> m[k]]
    IN  IF v = <<>> THEN Some(rest)
        ELSE Some(MergeDicts(rest, [anode_loss_threshold_g |-> v[1]]))

NotAnodeLoss(fs) == SelectSeq(fs, LAMBDA a : a[2] # "HIGH_ANODE_LOSS")

\* C6: a call that differs from the last one only in anode_loss_threshold_g returns the
\* same HIGH_CATHODE_LOSS and UNSTABLE_RESULTS findings in the same order.
C6_AnodeLimitIndependent ==
    Detected =>
        \A v \in {<<>>, <<0>>, <<20>>} :
            LET other == detect_anomalies(experiments, WithAnodeLimit(call.thresholds, v),
                                          DEFAULT_ANALYSIS_CONFIG)
            IN  /\ other.raised = result.raised
                /\ NotAnodeLoss(other.value) = NotAnodeLoss(Findings)

\* a call overriding the anode limit whose HIGH_ANODE_LOSS findings differ from those
\* under the default limit, while findings of the two other rules are present
C6_Witness ==
    /\ Detected
    /\ call.thresholds # NoneArg
    /\ "anode_loss_threshold_g" \in DOMAIN call.thresholds[1]
    /\ FindingsOfType(Findings, "HIGH_CATHODE_LOSS") # <<>>
    /\ FindingsOfType(Findings, "UNSTABLE_RESULTS") # <<>>
    /\ detect_anomalies(experiments, WithAnodeLimit(call.thresholds, <<>>),
                        DEFAULT_ANALYSIS_CONFIG).value # Findings

\* the thresholds argument without its unrecognized keys
RecognizedOnly(arg) ==
    IF arg = NoneArg THEN NoneArg
    ELSE Some([k \in DOMAIN arg[1] \cap RecognizedKeys |-> arg[1][k]])

\* C7: the limits applied are the caller's value for each recognized key it gives and
\* 0.5, 0.1, 0.05 for the others; unrecognized keys change nothing and raise nothing.
C7_OverridesMergeOverDefaults ==
    Detected =>
        /\ result.raised = "None"
        /\ result = DetectWith(experiments, [k \in RecognizedKeys |-> AppliedLimit(k)])
        /\ result = detect_anomalies(experiments, RecognizedOnly(call.thresholds),
                                     DEFAULT_ANALYSIS_CONFIG)

\* a call that overrides one recognized key, leaves another to its default and gives an
\* unrecognized key, and whose result is not the result under the defaults
C7_Witness ==
    /\ Detected
    /\ call.thresholds # NoneArg
    /\ DOMAIN call.thresholds[1] =
          {"cathode_loss_ratio_threshold", "std_dev_instability_threshold_g", "unknown_key"}
    /\ Findings # <<>>
    /\ result # detect_anomalies(experiments, NoneArg, DEFAULT_ANALYSIS_CONFIG)

\* the table of the input records and its groups
InputTable == experiments_to_dataframe(experiments)

InputGroups == groupby(InputTable)

\* the groups that hold the row of record i
GroupsHolding(i) ==
    {g \in DOMAIN InputGroups :
        \E r \in DOMAIN InputGroups[g][2] :
            InputGroups[g][2][r].experiment_id = experiments[i].experiment_id}

\* C8: on a non-empty input every record lies in exactly one group, the one that has its
\* electrolyte and its mode, no group is empty, the group sizes add up to the number of
\* rows of the overall statistics, and grouped_statistics has one entry per group.
C8_GroupsPartitionRecords ==
    (call.op = "grouped_statistics" /\ experiments # <<>>) =>
        /\ \A i \in DOMAIN experiments :
              /\ Cardinality(GroupsHolding(i)) = 1
              /\ \A g \in GroupsHolding(i) :
                    /\ InputGroups[g][1][1] = experiments[i].electrolyte
                    /\ InputGroups[g][1][2] = experiments[i].mode
        /\ \A g \in DOMAIN InputGroups : Len(InputGroups[g][2]) >= 1
        /\ SeriesSum([g \in DOMAIN InputGroups |-> Len(InputGroups[g][2])]) = Len(InputTable)
        /\ \A g, h \in DOMAIN InputGroups : g # h => InputGroups[g][1] # InputGroups[h][1]
        /\ result.raised = "None"
        /\ Len(result.value) = Len(InputGroups)
        /\ \A g \in DOMAIN InputGroups :
              /\ result.value[g][1] = InputGroups[g][1]
              /\ result.value[g][2] = basic_statistics(InputGroups[g][2])

\* grouped_statistics has returned two groups that share their electrolyte
C8_Witness ==
    /\ call.op = "grouped_statistics"
    /\ Len(result.value) = 2
    /\ result.value[1][1][1] = result.value[2][1][1]

\* C9: the summary's overall_stats are basic_statistics of all records, its grouped_stats
\* hold one entry per distinct (electrolyte, mode), keyed by the rendered key and holding
\* that group's statistics, and its anomalies are the findings of detect_anomalies under
\* the default thresholds, in order, each as its three fields.
C9_SummaryCombinesParts ==
    call.op = "summarize_analysis" =>
        LET found == detect_anomalies(experiments, NoneArg, DefaultAnalysisConfig)
            sum   == result.value
        IN  /\ result.raised = "None"
            /\ found.raised = "None"
            /\ sum.overall_stats = basic_statistics(InputTable)
            /\ Len(sum.grouped_stats) = Cardinality(InputKeys)
            /\ Cardinality(DictKeys(sum.grouped_stats)) = Cardinality(InputKeys)
            /\ \A k \in InputKeys :
                  /\ StrOfKey(k) \in DictKeys(sum.grouped_stats)
                  /\ DictGet(sum.grouped_stats, StrOfKey(k))
                        = basic_statistics(GroupRows(InputTable, k))
            /\ \A j, k \in InputKeys : j # k => StrOfKey(j) # StrOfKey(k)
            /\ Len(sum.anomalies) = Len(found.value)
            /\ \A i \in DOMAIN sum.anomalies :
                  /\ DOMAIN sum.anomalies[i] = {"experiment_id", "anomaly_type", "message"}
                  /\ sum.anomalies[i].experiment_id = found.value[i][1]
                  /\ sum.anomalies[i].anomaly_type = found.value[i][2]
                  /\ sum.anomalies[i].message = found.value[i][3]

\* a summary of the groups ("KOH, CV", "CV") and ("KOH", "CV, CV") with several findings
C9_Witness ==
    /\ call.op = "summarize_analysis"
    /\ result.raised = "None"
    /\ InputKeys = {<<KOH \o <<",", " ">> \o CV, CV>>, <<KOH, CV \o <<",", " ">> \o CV>>}
    /\ Len(result.value.anomalies) >= 2

\* what the last call returns when nothing is left over from earlier calls
FreshOutcome ==
    CASE call.op = "experiments_to_dataframe" -> Return(experiments_to_dataframe(experiments))
      [] call.op = "basic_statistics"         -> Return(basic_statistics(InputTable))
      [] call.op = "grouped_statistics"       -> Return(grouped_statistics(InputTable))
      [] call.op = "detect_anomalies"         ->
             detect_anomalies(experiments, call.thresholds, DefaultAnalysisConfig)
      [] call.op = "summarize_analysis"       ->
             summarize_analysis(experiments, DefaultAnalysisConfig)
      [] OTHER                                -> result

\* C10: no analysis call changes the input records, the caller's thresholds mapping or
\* the default configuration; a call returns what it returns when called first, and a
\* call repeated with the same arguments returns the same result.
C10_CallsArePure ==
    /\ [](result = FreshOutcome /\ thresholds = call.thresholds)
    /\ [][/\ experiments' = experiments
          /\ DEFAULT_ANALYSIS_CONFIG' = DEFAULT_ANALYSIS_CONFIG
          /\ call'.repeat => result' = result]_vars

\* detect_anomalies called twice in a row with overriding thresholds, with findings
C10_Witness ==
    /\ Detected
    /\ call.repeat
    /\ call.thresholds # NoneArg
    /\ DOMAIN call.thresholds[1] # {}
    /\ Findings # <<>>

\* the number of findings of type t attributed to the identifier id
CountFor(id, t) == Cardinality({j \in DOMAIN Findings : Findings[j][1] = id /\ Findings[j][2] = t})

\* |cathode delta| / |anode delta| >= limit for a record with a non-zero anode delta
RatioReaches(exp, limit) ==
    100 * Abs(exp.delta_mass_negative_g) >= limit * Abs(exp.delta_mass_positive_g)

\* a record of group ("KOH", "CV") with the given identifier and deltas
RecordOf(n, pos, neg) ==
    [experiment_id |-> ExperimentId(n), mode |-> CV, electrolyte |-> KOH,
     delta_mass_positive_g |-> pos, delta_mass_negative_g |-> neg]

\* the findings of detect_anomalies under the defaults, as <<identifier, type>> pairs
DefaultFindings(exps) ==
    LET found == detect_anomalies(exps, NoneArg, DefaultAnalysisConfig)
    IN  [i \in DOMAIN found.value |-> <<found.value[i][1], found.value[i][2]>>]

\* C11: for each record with a non-zero anode delta, detect_anomalies reports exactly one
\* HIGH_CATHODE_LOSS finding for the record's identifier when |cathode delta| / |anode
\* delta| >= cathode_loss_ratio_threshold and none otherwise; under the defaults it
\* fires for anode 0.02, cathode -0.03 and not for anode 0.12, cathode -0.02.
C11_CathodeRuleFiresOnRatio ==
    Detected =>
        /\ result.raised = "None"
        /\ \A i \in DOMAIN experiments :
              experiments[i].delta_mass_positive_g # 0 =>
                  CountFor(experiments[i].experiment_id, "HIGH_CATHODE_LOSS")
                      = IF RatioReaches(experiments[i],
                                        AppliedLimit("cathode_loss_ratio_threshold"))
                        THEN 1 ELSE 0
        /\ <<ExperimentId(2), "HIGH_CATHODE_LOSS">>
              \in {DefaultFindings(<<RecordOf(2, 2, -3)>>)[j] :
                      j \in DOMAIN DefaultFindings(<<RecordOf(2, 2, -3)>>)}
        /\ <<ExperimentId(1), "HIGH_CATHODE_LOSS">>
              \notin {DefaultFindings(<<RecordOf(1, 12, -2)>>)[j] :
                         j \in DOMAIN DefaultFindings(<<RecordOf(1, 12, -2)>>)}

\* a call under an overridden ratio threshold on two records with non-zero anode deltas:
\* one with a negative anode delta whose ratio equals the threshold, with its finding,
\* and one whose ratio is positive and below the threshold, without a finding
C11_Witness ==
    /\ Detected
    /\ call.thresholds # NoneArg
    /\ "cathode_loss_ratio_threshold" \in DOMAIN call.thresholds[1]
    /\ \E i, j \in DOMAIN experiments :
          /\ experiments[i].delta_mass_positive_g < 0
          /\ 100 * Abs(experiments[i].delta_mass_negative_g)
                = AppliedLimit("cathode_loss_ratio_threshold")
                    * Abs(experiments[i].delta_mass_positive_g)
          /\ CountFor(experiments[i].experiment_id, "HIGH_CATHODE_LOSS") = 1
          /\ experiments[j].delta_mass_positive_g > 0
          /\ experiments[j].delta_mass_negative_g # 0
          /\ CountFor(experiments[j].experiment_id, "HIGH_CATHODE_LOSS") = 0

\* the number of HIGH_ANODE_LOSS findings for the identifier id among the findings fs
AnodeLossCount(fs, id) ==
    Cardinality({j \in DOMAIN fs : fs[j][1] = id /\ fs[j][2] = "HIGH_ANODE_LOSS"})

\* C12: for each record, detect_anomalies reports exactly one HIGH_ANODE_LOSS finding for
\* the record's identifier when its signed anode delta is >= anode_loss_threshold_g and
\* none otherwise, whether Rule A fired for the record, did not fire or was skipped; under
\* a positive threshold a negative or zero anode delta never fires, and under the
\* defaults anode 0.12 fires while anode 0.02 does not.
C12_AnodeRuleFiresOnSignedDelta ==
    Detected =>
        LET zero == detect_anomalies(experiments, WithAnodeLimit(call.thresholds, <<0>>),
                                     DEFAULT_ANALYSIS_CONFIG)
        IN  /\ result.raised = "None"
            /\ zero.raised = "None"
            /\ \A i \in DOMAIN experiments :
                  /\ AnodeLossCount(Findings, experiments[i].experiment_id)
                        = IF experiments[i].delta_mass_positive_g
                                >= AppliedLimit("anode_loss_threshold_g")
                          THEN 1 ELSE 0
                  /\ (AppliedLimit("anode_loss_threshold_g") > 0
                         /\ experiments[i].delta_mass_positive_g <= 0)
                        => AnodeLossCount(Findings, experiments[i].experiment_id) = 0
                  /\ AnodeLossCount(zero.value, experiments[i].experiment_id)
                        = IF experiments[i].delta_mass_positive_g >= 0 THEN 1 ELSE 0
            /\ DefaultFindings(<<RecordOf(1, 12, -2)>>)
                  = <<<<ExperimentId(1), "HIGH_ANODE_LOSS">>>>
            /\ \A j \in DOMAIN DefaultFindings(<<RecordOf(2, 2, -3)>>) :
                  DefaultFindings(<<RecordOf(2, 2, -3)>>)[j][2] # "HIGH_ANODE_LOSS"

\* a call under an overridden anode threshold on a record whose anode delta equals the
\* threshold, with its HIGH_ANODE_LOSS finding and no HIGH_CATHODE_LOSS finding, and a
\* record with a negative anode delta for which Rule A fired and Rule B did not
C12_Witness ==
    /\ Detected
    /\ call.thresholds # NoneArg
    /\ "anode_loss_threshold_g" \in DOMAIN call.thresholds[1]
    /\ \E i, j \in DOMAIN experiments :
          /\ experiments[i].delta_mass_positive_g = AppliedLimit("anode_loss_threshold_g")
          /\ AnodeLossCount(Findings, experiments[i].experiment_id) = 1
          /\ CountFor(experiments[i].experiment_id, "HIGH_CATHODE_LOSS") = 0
          /\ experiments[j].delta_mass_positive_g < 0
          /\ CountFor(experiments[j].experiment_id, "HIGH_CATHODE_LOSS") = 1
          /\ AnodeLossCount(Findings, experiments[j].experiment_id) = 0

\* the anode deltas of the input records of group k, in input order
AnodeDeltasOf(k) ==
    LET members == SelectSeq(experiments, LAMBDA e : e.electrolyte = k[1] /\ e.mode = k[2])
    IN  [i \in DOMAIN members |-> members[i].delta_mass_positive_g]

\* sqrt(sum((x - mean)^2) / n) >= limit for the n numbers xs, the limit in hundredths:
\* n * sum(x^2) - sum(x)^2 >= (limit * n)^2 when the limit is positive
PopulationStdReaches(xs, limit) ==
    \/ limit <= 0
    \/ Len(xs) * SeriesSum([i \in DOMAIN xs |-> xs[i] * xs[i]]) - SeriesSum(xs) * SeriesSum(xs)
          >= limit * limit * Len(xs) * Len(xs)

\* the subjects expected for the groups keys[1], keys[2], ... in this order
RECURSIVE UnstableSubjects(_, _)
UnstableSubjects(keys, limit) ==
    IF keys = <<>> THEN <<>>
    ELSE (IF PopulationStdReaches(AnodeDeltasOf(keys[1]), limit)
          THEN <<<<"G", "R", "O", "U", "P", "-">> \o keys[1][1] \o <<"-">> \o keys[1][2]>>
          ELSE <<>>)
         \o UnstableSubjects(Tail(keys), limit)

\* C13: detect_anomalies groups the records by (electrolyte, mode) as grouped_statistics
\* does and reports, group by group, one UNSTABLE_RESULTS finding with subject
\* GROUP-<electrolyte>-<mode> when the population standard deviation of the group's anode
\* deltas is >= std_dev_instability_threshold_g and none otherwise; two records of
\* (KOH, CV) with anode deltas 0.10 and 0.20 under threshold 0.05 give GROUP-KOH-CV.
C13_InstabilityRuleFiresPerGroup ==
    (Detected /\ experiments # <<>>) =>
        LET grouped  == grouped_statistics(InputTable)
            keys     == [g \in DOMAIN grouped |-> grouped[g][1]]
            unstable == FindingsOfType(Findings, "UNSTABLE_RESULTS")
        IN  /\ result.raised = "None"
            /\ {keys[g] : g \in DOMAIN keys} = InputKeys
            /\ Len(keys) = Cardinality(InputKeys)
            /\ [i \in DOMAIN unstable |-> unstable[i][1]]
                  = UnstableSubjects(keys, AppliedLimit("std_dev_instability_threshold_g"))
            /\ <<GroupId(KOH, CV), "UNSTABLE_RESULTS">>
                  \in {DefaultFindings(<<RecordOf(2, 10, 0), RecordOf(1, 20, 0)>>)[j] :
                          j \in DOMAIN DefaultFindings(<<RecordOf(2, 10, 0), RecordOf(1, 20, 0)>>)}

\* a call under the default threshold 0.05 on two records of ("KOH", "CV") with anode
\* deltas 0.10 and 0.20, which reports GROUP-KOH-CV
C13_Witness ==
    /\ Detected
    /\ AppliedLimit("std_dev_instability_threshold_g") = 5
    /\ Len(experiments) = 2
    /\ InputKeys = {<<KOH, CV>>}
    /\ {experiments[i].delta_mass_positive_g : i \in DOMAIN experiments} = {10, 20}
    /\ UnstableFor(<<KOH, CV>>)

RECURSIVE Product(_)
Product(xs) == IF xs = <<>> THEN 1 ELSE xs[1] * Product(Tail(xs))

\* the positions of the input records whose anode delta is not zero
NonZeroRows == {i \in DOMAIN experiments : experiments[i].delta_mass_positive_g # 0}

\* the product of |anode delta| over the rows of NonZeroRows: a common denominator
RatioDenominator ==
    Product([i \in DOMAIN experiments |->
                IF i \in NonZeroRows THEN Abs(experiments[i].delta_mass_positive_g) ELSE 1])

\* the sum of |cathode delta| / |anode delta| over NonZeroRows, times RatioDenominator
RatioNumerator ==
    SeriesSum([i \in DOMAIN experiments |->
                  IF i \in NonZeroRows
                  THEN Abs(experiments[i].delta_mass_negative_g)
                         * (RatioDenominator \div Abs(experiments[i].delta_mass_positive_g))
                  ELSE 0])

\* stats holds the mean, population deviation, maximum and minimum of all the numbers xs
StatsOverAllRows(stats, xs) ==
    LET n == Len(xs)
    IN  /\ stats.mean.den > 0
        /\ stats.mean.num * n = SeriesSum(xs) * stats.mean.den
        /\ stats.std.den > 0
        /\ stats.std.radicand * n * n
              = (n * SeriesSum([i \in DOMAIN xs |-> xs[i] * xs[i]]) - SeriesSum(xs) * SeriesSum(xs))
                  * stats.std.den * stats.std.den
        /\ \E i \in DOMAIN xs : xs[i] = stats.max
        /\ \A i \in DOMAIN xs : xs[i] <= stats.max
        /\ \E i \in DOMAIN xs : xs[i] = stats.min
        /\ \A i \in DOMAIN xs : xs[i] >= stats.min

\* C14: on a non-empty table basic_statistics gives as ratio_mean_abs the sum of
\* |cathode delta| / |anode delta| over the rows whose anode delta is not zero, divided
\* by the number of those rows; rows with anode delta 0 raise nothing and are left out of
\* the sum and the count, while each column's mean, population deviation, maximum and
\* minimum are taken over all rows.
C14_RatioMeanSkipsZeroAnode ==
    (call.op = "basic_statistics" /\ experiments # <<>>) =>
        /\ result.raised = "None"
        /\ NonZeroRows # {} =>
              /\ result.value.ratio_mean_abs.den > 0
              /\ result.value.ratio_mean_abs.num * RatioDenominator * Cardinality(NonZeroRows)
                    = RatioNumerator * result.value.ratio_mean_abs.den
        /\ NonZeroRows = {} => result.value.ratio_mean_abs = NaN
        /\ StatsOverAllRows(result.value.anode,
                            [i \in DOMAIN experiments |-> experiments[i].delta_mass_positive_g])
        /\ StatsOverAllRows(result.value.cathode,
                            [i \in DOMAIN experiments |-> experiments[i].delta_mass_negative_g])

\* basic_statistics has returned on two rows with non-zero cathode deltas, one with anode
\* delta 0 and one with a non-zero anode delta
C14_Witness ==
    /\ call.op = "basic_statistics"
    /\ result.raised = "None"
    /\ Len(experiments) = 2
    /\ Cardinality(NonZeroRows) = 1
    /\ \A i \in DOMAIN experiments : experiments[i].delta_mass_negative_g # 0
    /\ result.value.ratio_mean_abs.num > 0

-----------------------------------------------------------------------------
(* Properties of the recorder *)

\* C1: every stored experiment has delta_mass_positive_g = final_mass_positive_g -
\* initial_mass_positive_g and delta_mass_negative_g = final_mass_negative_g -
\* initial_mass_negative_g, after any sequence of add_experiment and edit_experiment calls.
C1_DeltasMatchMasses ==
    \A r \in store :
        /\ r.delta_mass_positive_g = r.final_mass_positive_g - r.initial_mass_positive_g
        /\ r.delta_mass_negative_g = r.final_mass_negative_g - r.initial_mass_negative_g

\* the keyword arguments of add_experiment that leave a required mass out or give it as ""
LacksMass(data) ==
    \E i \in DOMAIN MassFields :
        MassFields[i] \notin DOMAIN data \/ data[MassFields[i]] = Text("")

\* C15: a recorder call that raises leaves the stored rows as they were: edit_experiment
\* and delete_experiment on an identifier that is not stored raise ValidationError and
\* change no row, an edit_experiment that raises after it assigned some fields persists
\* none of them, and add_experiment without a required mass raises ValidationError and
\* stores no row.
C15_FailedCallsChangeNothing ==
    /\ [](\A data \in AddData :
             LacksMass(data) =>
                 /\ add_experiment(store, StoredId, "CV", data).outcome = Raise("ValidationError")
                 /\ add_experiment(store, StoredId, "CV", data).rows = store)
    /\ [][/\ result'.raised # "None" => store' = store
          /\ (/\ call'.op \in {"edit_experiment", "delete_experiment"}
              /\ \A r \in store : r.experiment_id # call'.experiment_id)
                => (result'.raised = "ValidationError" /\ store' = store)
          /\ (call'.op = "add_experiment" /\ call'.missing)
                => (result'.raised = "ValidationError" /\ store' = store)]_vars

\* an edit_experiment call on a stored experiment that raised ValidationError after it
\* had assigned a field
C15_Witness ==
    /\ call.op = "edit_experiment"
    /\ call.assigned >= 1
    /\ result.raised = "ValidationError"
    /\ \E r \in store : r.experiment_id = call.experiment_id

====
